---- MODULE Spec2Model ----
(***************************************************************************)
(* Audio analysis pipeline of idf-camera-playground:                       *)
(*   components/audio_processing/audio_processing.c  (feature module)      *)
(*   projects/musical-dna-sequencer/main/main.c      (musical analysis)    *)
(*                                                                         *)
(* The float values of the feature module (beat tracker, spectral          *)
(* statistics) are single-precision values with IEEE-754 rounding.  Those  *)
(* of the chord analysis of main.c are exact rationals <<n, d>> in lowest  *)
(* terms with d > 0; a division by zero yields what IEEE-754 yields:       *)
(* <<1, 0>> (+Inf), <<-1, 0>> (-Inf) or <<0, 0>> (NaN), and rounding is    *)
(* not modelled there.                                                     *)
(***************************************************************************)
EXTENDS Integers, Sequences, FiniteSets, TLC

VARIABLES
    detector,       \* beat_detector_t of the feature module
    timer,          \* esp_timer_get_time(), microseconds
    call,           \* the last audio_beat_detector_process call: inputs, locals, output
    prior,          \* the detector as it was when that call was entered
    stored_slots,   \* history: slots of detector.beat_intervals ever written
    beat_times,     \* history: timestamps of the calls that reported a beat
    calls,          \* history: number of process calls so far
    g_audio_config, \* static audio_config_t g_audio_config
    g_initialized,  \* static bool g_initialized
    g_window_coeffs,\* static float *g_window_coeffs: NULL or the buffer it points to
    init_call,      \* the last audio_processing_init call: argument, result, last step
    current_chord,  \* static chord_info_t current_chord of the musical analysis
    frame,          \* the last analyze_chords call: its locals
    fft_queue,      \* QueueHandle_t fft_queue: the frames it holds, oldest first
    producer,       \* audio_processing_task: position, audio_samples, frames captured
    consumer,       \* music_analysis_task: position, buffers and analysis results
    accepted,       \* history: frames xQueueSend accepted, in order
    dropped,        \* history: frames xQueueSend refused
    received,       \* history: frames xQueueReceive delivered, in order
    stage_call,     \* the last stage operation call: arguments, result, output
    analysis,       \* music_analysis_task inside analyze_chords: position, locals
    viz             \* visualization_task: position, values read, last chord logged

beat_vars == <<detector, timer, call, prior, stored_slots, beat_times, calls>>

pipe_vars == <<g_audio_config, g_initialized, g_window_coeffs, init_call>>

chord_vars == <<current_chord, frame>>

task_vars == <<fft_queue, producer, consumer, accepted, dropped, received>>

stage_vars == <<stage_call>>

viz_vars == <<analysis, viz>>

vars == <<beat_vars, pipe_vars, chord_vars, task_vars, stage_vars, viz_vars>>

(***************************************************************************)
(* Bounds of the model.                                                    *)
(***************************************************************************)
MaxCalls == 5

\* a tonal frame has at most MaxTones bins of magnitude 1, the others 0
MaxTones == 3

\* a broadband frame has magnitude 1 in all of BroadBins but at most MaxNotches
MaxNotches == 2

\* frames of a session that wraps the energy ring
MaxRingCalls == 18

\* frames of a session near the threshold
MaxEdgeCalls == 4

\* frames of that session whose spacing varies
MaxVaried == 6

\* frames the capture source delivers to the producer task
MaxFrames == 6

\* bins of the spectra whose magnitudes vary freely
MaxBins == 3

\* bins of the flat and of the single-bin spectra
MaxWide == 8

\* features->energy values fed to the tracker
Energies == {-1, 0, 1, 20}

\* microseconds between the timestamps of two consecutive frames
Deltas == {100000, 200001}

(***************************************************************************)
(* Exact float arithmetic.                                                 *)
(***************************************************************************)
Abs(x) == IF x < 0 THEN -x ELSE x

Sign(x) == IF x < 0 THEN -1 ELSE IF x > 0 THEN 1 ELSE 0

RECURSIVE GCD(_, _)
GCD(a, b) == IF b = 0 THEN a ELSE GCD(b, a % b)

\* the float n/d
Rat(n, d) ==
    IF d = 0 THEN <<Sign(n), 0>>
    ELSE LET g == GCD(Abs(n), Abs(d))
         IN  <<Sign(d) * (n \div g), Abs(d) \div g>>

Flt(i) == <<i, 1>>

IsFinite(x) == x[2] # 0

IsNaN(x) == x = <<0, 0>>

FAdd(x, y) ==
    IF IsFinite(x) /\ IsFinite(y)
    THEN LET g == GCD(x[2], y[2])
         IN  Rat(x[1] * (y[2] \div g) + y[1] * (x[2] \div g), (x[2] \div g) * y[2])
    ELSE IF IsNaN(x) \/ IsNaN(y) \/ (~IsFinite(x) /\ ~IsFinite(y) /\ x # y)
         THEN <<0, 0>>
         ELSE IF IsFinite(x) THEN y ELSE x

FNeg(x) == <<-x[1], x[2]>>

FSub(x, y) == FAdd(x, FNeg(y))

FMul(x, y) ==
    IF IsFinite(x) /\ IsFinite(y)
    THEN LET g1 == GCD(Abs(x[1]), y[2])
             g2 == GCD(Abs(y[1]), x[2])
         IN  IF x[1] = 0 \/ y[1] = 0 THEN <<0, 1>>
             ELSE <<(x[1] \div g1) * (y[1] \div g2), (x[2] \div g2) * (y[2] \div g1)>>
    ELSE IF IsNaN(x) \/ IsNaN(y) \/ x[1] = 0 \/ y[1] = 0
         THEN <<0, 0>>
         ELSE <<Sign(x[1]) * Sign(y[1]), 0>>

\* x / y as the FPU computes it: finite/0 is +-Inf, 0/0 is NaN
FDiv(x, y) ==
    IF IsFinite(x) /\ IsFinite(y)
    THEN IF y[1] = 0 THEN <<Sign(x[1]), 0>>
         ELSE FMul(x, <<Sign(y[1]) * y[2], Abs(y[1])>>)
    ELSE IF IsNaN(x) \/ IsNaN(y) \/ (~IsFinite(x) /\ ~IsFinite(y))
         THEN <<0, 0>>
         ELSE IF IsFinite(x) THEN <<0, 1>>
              ELSE <<x[1] * (IF y[1] < 0 THEN -1 ELSE 1), 0>>

\* x > y; every comparison with NaN is false
FGt(x, y) ==
    IF IsNaN(x) \/ IsNaN(y) THEN FALSE
    ELSE IF IsFinite(x) /\ IsFinite(y) THEN x[1] * y[2] > y[1] * x[2]
    ELSE IF ~IsFinite(x) /\ ~IsFinite(y) THEN x[1] > y[1]
    ELSE IF IsFinite(x) THEN y[1] < 0
    ELSE x[1] > 0

\* sum of f[lo], ..., f[hi-1]; the floats are exact, so the order in which the
\* loop adds them does not change the sum
RECURSIVE FSum(_, _, _)
FSum(f, lo, hi) ==
    IF lo >= hi THEN Flt(0)
    ELSE IF hi - lo = 1 THEN f[lo]
    ELSE LET mid == (lo + hi) \div 2
         IN  FAdd(FSum(f, lo, mid), FSum(f, mid, hi))

\* a C array once filled: every element holds its computed value
Array(f) == f @@ <<>>

(***************************************************************************)
(* Single-precision arithmetic of the feature module.  A float is          *)
(* <<s, m, e>> with value s * m * 2^e, s in {-1, 1} and 2^23 <= m < 2^24,  *)
(* or <<0, 0, 0>> for zero.  Every operation rounds its exact result to    *)
(* the nearest float, ties to even, as the FPU does.  A division by zero   *)
(* yields F32Inf(s) or F32NaN; these are stored but never operands here.   *)
(* Exponent overflow and underflow are outside the values used here.       *)
(***************************************************************************)
Pow2 == Array([i \in 0..30 |-> 2^i])

F32Zero == <<0, 0, 0>>

\* +Inf and -Inf, NaN
F32Inf(s) == <<s, 0, 128>>

F32NaN == <<0, 0, 128>>

F32IsFinite(a) == a[3] # 128

\* the number of bits of M, 0 <= M < 2^31
RECURSIVE BitLenIn(_, _, _)
BitLenIn(M, lo, hi) ==
    IF lo = hi THEN lo
    ELSE LET mid == (lo + hi) \div 2
         IN  IF M < Pow2[mid] THEN BitLenIn(M, lo, mid)
             ELSE BitLenIn(M, mid + 1, hi)

BitLen(M) == BitLenIn(M, 0, 31)

\* the float nearest to s * (M + f) * 2^e, where 0 < f < 1 if sticky and
\* f = 0 otherwise
F32Round(s, M, sticky, e) ==
    IF M = 0 THEN F32Zero
    ELSE LET b == BitLen(M)
         IN  IF b <= 24 THEN <<s, M * Pow2[24 - b], e - (24 - b)>>
             ELSE LET sh   == b - 24
                      q    == M \div Pow2[sh]
                      r    == M % Pow2[sh]
                      half == Pow2[sh - 1]
                      up   == r > half \/ (r = half /\ (sticky \/ q % 2 = 1))
                  IN  IF up /\ q + 1 = Pow2[24] THEN <<s, Pow2[23], e + sh + 1>>
                      ELSE IF up THEN <<s, q + 1, e + sh>>
                      ELSE <<s, q, e + sh>>

\* (float)n of an int
F32Int(n) == F32Round(Sign(n), Abs(n), FALSE, 0)

\* the float p * 2^e of a literal
F32Lit(p, e) == F32Round(Sign(p), Abs(p), FALSE, e)

F32Neg(a) == <<-a[1], a[2], a[3]>>

\* |a| >= |b| of nonzero floats
F32MagGe(a, b) == a[3] > b[3] \/ (a[3] = b[3] /\ a[2] >= b[2])

\* a + b
F32Add(a, b) ==
    IF a[1] = 0 THEN b
    ELSE IF b[1] = 0 THEN a
    ELSE LET x  == IF F32MagGe(a, b) THEN a ELSE b
             y  == IF F32MagGe(a, b) THEN b ELSE a
             d  == x[3] - y[3]
             X  == x[2] * 32
             Yf == y[2] * 32
             Y  == IF d > 30 THEN 0 ELSE Yf \div Pow2[d]
             st == IF d > 30 THEN TRUE ELSE Yf % Pow2[d] # 0
         IN  IF x[1] = y[1] THEN F32Round(x[1], X + Y, st, x[3] - 5)
             ELSE IF st THEN F32Round(x[1], X - Y - 1, TRUE, x[3] - 5)
             ELSE F32Round(x[1], X - Y, FALSE, x[3] - 5)

\* a - b
F32Sub(a, b) == F32Add(a, F32Neg(b))

\* a * b: the 48-bit product of the significands from 12-bit halves
F32Mul(a, b) ==
    IF a[1] = 0 \/ b[1] = 0 THEN F32Zero
    ELSE LET a1   == a[2] \div 4096
             a0   == a[2] % 4096
             b1   == b[2] \div 4096
             b0   == b[2] % 4096
             mid  == a1 * b0 + a0 * b1
             low  == (mid % 4096) * 4096 + a0 * b0
             high == a1 * b1 + mid \div 4096 + low \div Pow2[24]
             lo24 == low % Pow2[24]
         IN  F32Round(a[1] * b[1], high * 64 + lo24 \div Pow2[18],
                      lo24 % Pow2[18] # 0, a[3] + b[3] + 18)

\* a / b: 28 quotient bits by long division, 7 bits a step; x/0 is +-Inf and
\* 0/0 is NaN
F32Div(a, b) ==
    IF b[1] = 0 THEN (IF a[1] = 0 THEN F32NaN ELSE F32Inf(a[1]))
    ELSE IF a[1] = 0 THEN F32Zero
    ELSE LET q1 == (a[2] * 128) \div b[2]
             r1 == (a[2] * 128) % b[2]
             q2 == (r1 * 128) \div b[2]
             r2 == (r1 * 128) % b[2]
             q3 == (r2 * 128) \div b[2]
             r3 == (r2 * 128) % b[2]
             q4 == (r3 * 128) \div b[2]
             r4 == (r3 * 128) % b[2]
         IN  F32Round(a[1] * b[1],
                      ((q1 * 128 + q2) * 128 + q3) * 128 + q4,
                      r4 # 0, a[3] - b[3] - 28)

\* a > b, a >= b
F32Gt(a, b) == F32Sub(a, b)[1] > 0

F32Ge(a, b) == F32Sub(a, b)[1] >= 0

\* the digit-by-digit square root: pair j of the radicand m * 4^14, m < 4^13,
\* brought down to the remainder
RECURSIVE SqrtDigits(_, _, _, _)
SqrtDigits(m, j, root, rem) ==
    IF j > 27 THEN <<root, rem>>
    ELSE LET pair  == IF j <= 13 THEN (m \div Pow2[2 * (13 - j)]) % 4 ELSE 0
             r     == rem * 4 + pair
             trial == root * 4 + 1
         IN  IF r >= trial THEN SqrtDigits(m, j + 1, root * 2 + 1, r - trial)
             ELSE SqrtDigits(m, j + 1, root * 2, r)

\* sqrtf(a) for a >= 0
F32Sqrt(a) ==
    IF a[1] = 0 THEN F32Zero
    ELSE LET odd == a[3] % 2 = 1
             m   == IF odd THEN a[2] * 2 ELSE a[2]
             e   == IF odd THEN a[3] - 1 ELSE a[3]
             rr  == SqrtDigits(m, 1, 0, 0)
         IN  F32Round(1, rr[1], rr[2] # 0, e \div 2 - 14)

\* the sum of f[lo], ..., f[hi - 1] accumulated from 0.0f in index order
RECURSIVE F32Sum(_, _, _)
F32Sum(f, lo, hi) ==
    IF lo >= hi THEN F32Zero
    ELSE F32Add(F32Sum(f, lo, hi - 1), f[hi - 1])

(***************************************************************************)
(* Beat tracker of the feature module.                                     *)
(***************************************************************************)
EnergyRing == 16

IntervalRing == 8

RefractoryUs == 200000

DefaultTempo == 120

\* the literal 1.3f
BeatFactor == F32Lit(10905190, -23)

\* audio_beat_detector_init: memset 0, tempo = 120
BeatDetectorInit ==
    [ energy_history |-> [i \in 0..(EnergyRing - 1) |-> F32Zero],
      beat_intervals |-> [i \in 0..(IntervalRing - 1) |-> F32Zero],
      history_index  |-> 0,
      beat_count     |-> 0,
      tempo          |-> F32Int(DefaultTempo),
      confidence     |-> F32Zero,
      last_beat_time |-> 0 ]

NoCall ==
    [ ret |-> "none", energy |-> F32Zero, timestamp |-> 0, avg_energy |-> F32Zero,
      beat_detected |-> FALSE, interval_idx |-> -1, count |-> 0 ]

\* the energy ring with the frame's energy written at the advanced index
HistoryWriteNext(d, energy) ==
    [d.energy_history EXCEPT ![(d.history_index + 1) % EnergyRing] = energy]

\* the energy ring after the frame's energy is written
HistoryWrite(d, energy) ==
    [d.energy_history EXCEPT ![d.history_index] = energy]

\* avg_energy: the ring summed over all 16 slots, divided by 16.0f
AvgEnergy(history) == F32Div(F32Sum(history, 0, EnergyRing), F32Int(EnergyRing))

\* the beat condition with the energy comparison not strict
BeatFiresEnergyGe(d, energy, avg_energy, now) ==
    /\ ~F32Gt(F32Mul(BeatFactor, avg_energy), energy)
    /\ (now - d.last_beat_time) > RefractoryUs

\* the beat condition with the refractory comparison not strict
BeatFiresRefractoryGe(d, energy, avg_energy, now) ==
    /\ F32Gt(energy, F32Mul(BeatFactor, avg_energy))
    /\ (now - d.last_beat_time) >= RefractoryUs

\* the beat condition of the if statement
BeatFires(d, energy, avg_energy, now) ==
    /\ F32Gt(energy, F32Mul(BeatFactor, avg_energy))
    /\ (now - d.last_beat_time) > RefractoryUs

\* interval_idx = beat_count % 8
IntervalIdx(d) == d.beat_count % IntervalRing

\* count = min(beat_count, 8)
IntervalCount(d) == IF d.beat_count < IntervalRing THEN d.beat_count ELSE IntervalRing

\* the interval ring when the first beat stores an interval as well
IntervalsWriteAlways(d, now) ==
    [d.beat_intervals EXCEPT
        ![IntervalIdx(d)] = F32Div(F32Int(now - d.last_beat_time), F32Int(1000000))]

\* the interval ring after the beat at `now`
IntervalsWrite(d, now) ==
    IF d.beat_count > 0
    THEN [d.beat_intervals EXCEPT
            ![IntervalIdx(d)] = F32Div(F32Int(now - d.last_beat_time), F32Int(1000000))]
    ELSE d.beat_intervals

\* tempo after the beat at `now`: 60 / (sum of slots 0..count-1 / count)
TempoUpdate(d, now) ==
    IF d.beat_count > 0
    THEN F32Div(F32Int(60),
              F32Div(F32Sum(IntervalsWrite(d, now), 0, IntervalCount(d)),
                   F32Int(IntervalCount(d))))
    ELSE d.tempo

\* confidence = (energy - avg_energy) / avg_energy
Confidence(energy, avg_energy) == F32Div(F32Sub(energy, avg_energy), avg_energy)

\* a call that clears the confidence on a frame without a beat
BeatProcessClearing(d, energy, now) ==
    LET history == HistoryWrite(d, energy)
        avg     == AvgEnergy(history)
        d1      == [d EXCEPT !.energy_history = history,
                             !.history_index = (d.history_index + 1) % EnergyRing]
        fires   == BeatFires(d1, energy, avg, now)
        stores  == fires /\ d1.beat_count > 0
    IN  [ detector |->
            IF fires
            THEN [d1 EXCEPT !.beat_intervals = IntervalsWrite(d1, now),
                            !.tempo = TempoUpdate(d1, now),
                            !.last_beat_time = now,
                            !.beat_count = d1.beat_count + 1,
                            !.confidence = Confidence(energy, avg)]
            ELSE [d1 EXCEPT !.confidence = F32Zero],
          beat_detected |-> fires,
          avg_energy    |-> avg,
          interval_idx  |-> IF stores THEN IntervalIdx(d1) ELSE -1,
          count         |-> IF stores THEN IntervalCount(d1) ELSE 0 ]

\* a successful audio_beat_detector_process call: the detector it leaves, the
\* value it writes to *beat_detected, and its locals
BeatProcess(d, energy, now) ==
    LET history == HistoryWrite(d, energy)
        avg     == AvgEnergy(history)
        d1      == [d EXCEPT !.energy_history = history,
                             !.history_index = (d.history_index + 1) % EnergyRing]
        fires   == BeatFires(d1, energy, avg, now)
        stores  == fires /\ d1.beat_count > 0
    IN  [ detector |->
            IF fires
            THEN [d1 EXCEPT !.beat_intervals = IntervalsWrite(d1, now),
                            !.tempo = TempoUpdate(d1, now),
                            !.last_beat_time = now,
                            !.beat_count = d1.beat_count + 1,
                            !.confidence = Confidence(energy, avg)]
            ELSE d1,
          beat_detected |-> fires,
          avg_energy    |-> avg,
          interval_idx  |-> IF stores THEN IntervalIdx(d1) ELSE -1,
          count         |-> IF stores THEN IntervalCount(d1) ELSE 0 ]

\* one frame: features {energy, timestamp} handed to audio_beat_detector_process
BeatFrame(e, dt) ==
    LET now == timer + dt
        r   == BeatProcess(detector, e, now)
    IN  /\ detector' = r.detector
        /\ timer' = now
        /\ prior' = detector
        /\ call' = [ ret |-> "ESP_OK", energy |-> e, timestamp |-> now,
                     avg_energy |-> r.avg_energy,
                     beat_detected |-> r.beat_detected,
                     interval_idx |-> r.interval_idx,
                     count |-> r.count ]
        /\ stored_slots' = IF r.interval_idx # -1
                           THEN stored_slots \cup {r.interval_idx}
                           ELSE stored_slots
        /\ beat_times' = IF r.beat_detected THEN Append(beat_times, now) ELSE beat_times
        /\ calls' = calls + 1

\* a frame of a session of at most MaxCalls frames
BeatDetectorProcess(e, dt) == calls < MaxCalls /\ BeatFrame(F32Int(e), dt)

\* the detector after a call that validates its arguments only after the ring
\* update
ProcessRejectedAfterWrite(d, energy) ==
    [d EXCEPT !.energy_history = HistoryWrite(d, energy),
              !.history_index = (d.history_index + 1) % EnergyRing]

\* the detector after a call with a null argument: the call returns
\* ESP_ERR_INVALID_ARG from its first statement
ProcessRejected(d, energy) == d

\* the pointer arguments of audio_beat_detector_process
ProcessArgs == {"detector", "features", "beat_detected"}

\* a frame for which audio_beat_detector_process is called with the argument
\* `null` null; *beat_detected is not written
BeatDetectorProcessNull(null, e) ==
    /\ detector' = ProcessRejected(detector, F32Int(e))
    /\ call' = [call EXCEPT !.ret = "ESP_ERR_INVALID_ARG"]
    /\ UNCHANGED <<timer, prior, stored_slots, beat_times, calls>>

BeatInit ==
    /\ detector = BeatDetectorInit
    /\ timer = 0
    /\ call = NoCall
    /\ prior = BeatDetectorInit
    /\ stored_slots = {}
    /\ beat_times = <<>>
    /\ calls = 0

BeatNext == \E e \in Energies, dt \in Deltas : BeatDetectorProcess(e, dt)

\* a session long enough for the energy ring to wrap: the k-th frame has
\* energy k, the first MaxVaried frames arrive at either spacing and the
\* later ones 200001 us apart
BeatRingNext ==
    \E dt \in (IF calls < MaxVaried THEN Deltas ELSE {200001}) :
        calls < MaxRingCalls /\ BeatFrame(F32Int(calls + 1), dt)

\* features->energy of a session near the threshold: 0.0f, 1.0f,
\* 89.49314880371094f and 7.914360046386719f
EdgeEnergies ==
    {F32Zero, F32Int(1), F32Lit(11730046, -17), F32Lit(16597616, -21)}

\* a session whose energies are non-negative, as audio_extract_features
\* produces them
BeatEdgeNext ==
    \E e \in EdgeEnergies, dt \in Deltas : calls < MaxEdgeCalls /\ BeatFrame(e, dt)

\* valid frames and frames whose call is rejected
BeatErrNext ==
    \/ \E e \in {0, 1}, dt \in Deltas : BeatDetectorProcess(e, dt)
    \/ \E null \in ProcessArgs, e \in {0, 1} : BeatDetectorProcessNull(null, e)

(***************************************************************************)
(* Pipeline construction and the cached window of the feature module.      *)
(***************************************************************************)
\* a null pointer
NULL == [ null |-> TRUE ]

MinFftSize == 64

MaxFftSize == 4096

MinSampleRate == 8000

MaxSampleRate == 96000

AUDIO_WINDOW_HANN == 0

AUDIO_WINDOW_HAMMING == 1

AUDIO_WINDOW_BLACKMAN == 2

\* config->sample_rate, config->fft_size, config->window_type of the calls
SampleRates == {7999, 8000, 96000, 96001}

FftSizes == {63, 64, 96, 4096, 4097}

WindowTypes == {0, 1, 3}

Configs ==
    [ sample_rate : SampleRates, fft_size : FftSizes, window_type : WindowTypes,
      hop_size : {256}, normalize : {FALSE} ]

\* what dsps_fft2r_init_fc32 of the ESP-DSP library may return
DspInitResults == {"ESP_OK", "ESP_ERR_DSP_INVALID_LENGTH"}

\* static audio_config_t g_audio_config = {0}
ZeroConfig ==
    [ sample_rate |-> 0, fft_size |-> 0, window_type |-> 0,
      hop_size |-> 0, normalize |-> FALSE ]

\* the switch of generate_window_coeffs: the formula that fills the buffer
WindowShape(window_type) ==
    IF window_type = AUDIO_WINDOW_HANN THEN "hann"
    ELSE IF window_type = AUDIO_WINDOW_HAMMING THEN "hamming"
    ELSE IF window_type = AUDIO_WINDOW_BLACKMAN THEN "blackman"
    ELSE "rectangular"

\* a buffer of `length` floats filled with the coefficients of the shape
WindowBuffer(window_type, length) ==
    [ shape |-> WindowShape(window_type), length |-> length ]

\* generate_window_coeffs: the old buffer is freed, then the new one is
\* allocated; the result and the value g_window_coeffs is left with
GenerateWindowCoeffs(window_type, length, malloc_ok) ==
    IF malloc_ok
    THEN [ ret |-> "ESP_OK", coeffs |-> WindowBuffer(window_type, length) ]
    ELSE [ ret |-> "ESP_ERR_NO_MEM", coeffs |-> NULL ]

\* the two range checks of audio_processing_init
ConfigInRange(config) ==
    /\ ~(config.fft_size < MinFftSize \/ config.fft_size > MaxFftSize)
    /\ ~(config.sample_rate < MinSampleRate \/ config.sample_rate > MaxSampleRate)

\* audio_processing_init(config): its result, the step it returned from, and
\* the globals it leaves
ProcessingInit(config, dsp_ret, malloc_ok) ==
    LET same == [ config |-> g_audio_config, initialized |-> g_initialized,
                  coeffs |-> g_window_coeffs ]
        gen  == GenerateWindowCoeffs(config.window_type, config.fft_size, malloc_ok)
    IN  IF config = NULL
        THEN [ ret |-> "ESP_ERR_INVALID_ARG", step |-> "config" ] @@ same
        ELSE IF ~ConfigInRange(config)
        THEN [ ret |-> "ESP_ERR_INVALID_ARG", step |-> "validate" ] @@ same
        ELSE IF dsp_ret # "ESP_OK"
        THEN [ ret |-> dsp_ret, step |-> "dsps_fft2r_init_fc32",
               config |-> config, initialized |-> g_initialized,
               coeffs |-> g_window_coeffs ]
        ELSE IF gen.ret # "ESP_OK"
        THEN [ ret |-> gen.ret, step |-> "generate_window_coeffs",
               config |-> config, initialized |-> g_initialized,
               coeffs |-> gen.coeffs ]
        ELSE [ ret |-> "ESP_OK", step |-> "done",
               config |-> config, initialized |-> TRUE, coeffs |-> gen.coeffs ]

AudioProcessingInit(config, dsp_ret, malloc_ok) ==
    LET r == ProcessingInit(config, dsp_ret, malloc_ok)
    IN  /\ g_audio_config' = r.config
        /\ g_initialized' = r.initialized
        /\ g_window_coeffs' = r.coeffs
        /\ init_call' = [ config |-> config, ret |-> r.ret, step |-> r.step ]

PipeInit ==
    /\ g_audio_config = ZeroConfig
    /\ g_initialized = FALSE
    /\ g_window_coeffs = NULL
    /\ init_call = [ config |-> NULL, ret |-> "none", step |-> "none" ]

PipeNext ==
    \E config \in Configs \cup {NULL}, dsp_ret \in DspInitResults,
       malloc_ok \in BOOLEAN :
        AudioProcessingInit(config, dsp_ret, malloc_ok)

(***************************************************************************)
(* Chord analysis of the musical analysis (main.c).                        *)
(***************************************************************************)
I2S_SAMPLE_RATE == 44100

N_SAMPLES == 1024

N_FFT == 512

FREQ_BINS == N_FFT \div 2

CHORD_TEMPLATES == 24

chord_templates ==
    << <<1,0,0,0,1,0,0,1,0,0,0,0>>,   \* C major
       <<0,1,0,0,0,1,0,0,1,0,0,0>>,   \* C# major
       <<0,0,1,0,0,0,1,0,0,1,0,0>>,   \* D major
       <<0,0,0,1,0,0,0,1,0,0,1,0>>,   \* D# major
       <<0,0,0,0,1,0,0,0,1,0,0,1>>,   \* E major
       <<1,0,0,0,0,1,0,0,0,1,0,0>>,   \* F major
       <<0,1,0,0,0,0,1,0,0,0,1,0>>,   \* F# major
       <<0,0,1,0,0,0,0,1,0,0,0,1>>,   \* G major
       <<1,0,0,1,0,0,0,0,1,0,0,0>>,   \* G# major
       <<0,1,0,0,1,0,0,0,0,1,0,0>>,   \* A major
       <<0,0,1,0,0,1,0,0,0,0,1,0>>,   \* A# major
       <<0,0,0,1,0,0,1,0,0,0,0,1>>,   \* B major
       <<1,0,0,1,0,0,0,1,0,0,0,0>>,   \* C minor
       <<0,1,0,0,1,0,0,0,1,0,0,0>>,   \* C# minor
       <<0,0,1,0,0,1,0,0,0,1,0,0>>,   \* D minor
       <<0,0,0,1,0,0,1,0,0,0,1,0>>,   \* D# minor
       <<0,0,0,0,1,0,0,1,0,0,0,1>>,   \* E minor
       <<1,0,0,0,0,1,0,0,1,0,0,0>>,   \* F minor
       <<0,1,0,0,0,0,1,0,0,1,0,0>>,   \* F# minor
       <<0,0,1,0,0,0,0,1,0,0,1,0>>,   \* G minor
       <<0,0,0,1,0,0,0,0,1,0,0,1>>,   \* G# minor
       <<1,0,0,0,1,0,0,0,0,1,0,0>>,   \* A minor
       <<0,1,0,0,0,1,0,0,0,0,1,0>>,   \* A# minor
       <<0,0,1,0,0,0,1,0,0,0,0,1>> >> \* B minor

\* chord_templates[c][i], both counted from 0
Template(c, i) == chord_templates[c + 1][i + 1]

\* the literal 0.3f
ChordThreshold == Rat(3, 10)

\* 80.0f < freq < 2000.0f for freq = i * I2S_SAMPLE_RATE / (2.0f * FREQ_BINS)
InMusicalRange(i) ==
    /\ i * I2S_SAMPLE_RATE > 80 * (2 * FREQ_BINS)
    /\ i * I2S_SAMPLE_RATE < 2000 * (2 * FREQ_BINS)

\* ((int)roundf(12.0f * log2f(freq / 440.0f) + 69.0f)) % 12, made non-negative,
\* for the bins in the musical range (bins 1..23), tabulated
PitchClassTable == <<5, 5, 0, 5, 9, 0, 2, 5, 7, 9, 10, 0, 1, 2, 4, 5, 6, 7, 8, 9, 9, 10, 11>>

PitchClass(i) == PitchClassTable[i]

\* the bins the chroma loop accumulates
MusicalBins == {i \in 1..(FREQ_BINS - 1) : InMusicalRange(i)}

\* the bins of the notes C, D, E, G and A (pitch classes 0, 2, 4, 7 and 9)
ToneBins == {12, 14, 15, 18, 20}

\* the bins of a broadband frame: one or two bins for each pitch class but 3
BroadBins == 12..23

\* the bins a broadband frame may lack
NotchBins == {20, 21, 22}

\* the sets of bins of magnitude 1 of the frames analysed: tonal frames of at
\* most MaxTones notes, and broadband frames that lack at most MaxNotches bins
Frames ==
    {S \in SUBSET ToneBins : Cardinality(S) <= MaxTones} \cup
    {BroadBins \ N : N \in {M \in SUBSET NotchBins : Cardinality(M) <= MaxNotches}}

\* fft_output of a frame with magnitude 1 in the bins of S and 0 elsewhere
Spectrum(S) == [i \in 0..(FREQ_BINS - 1) |-> IF i \in S THEN Flt(1) ELSE Flt(0)]

\* sum of spectrum[i] over the bins of B, in any order (the sum is exact)
RECURSIVE SumBins(_, _)
SumBins(spectrum, B) ==
    IF B = {} THEN Flt(0)
    ELSE LET i == CHOOSE x \in B : TRUE
         IN  FAdd(spectrum[i], SumBins(spectrum, B \ {i}))

\* chroma[] after the accumulation loop
ChromaAccumulate(spectrum) ==
    Array([c \in 0..11 |-> SumBins(spectrum, {i \in MusicalBins : PitchClass(i) = c})])

\* chroma[] with every element left as accumulated
ChromaKeep(chroma, chroma_sum) == chroma

\* chroma[] with every element divided by the sum
ChromaDivide(chroma, chroma_sum) == Array([c \in 0..11 |-> FDiv(chroma[c], chroma_sum)])

\* chroma[] after the normalisation: divided by its sum when the sum is > 0
ChromaNormalize(chroma) ==
    LET chroma_sum == FSum(chroma, 0, 12)
    IN  IF FGt(chroma_sum, Flt(0)) THEN ChromaDivide(chroma, chroma_sum) ELSE chroma

\* correlation of chroma with template c: the 12 products summed in index order
Correlation(chroma, c) ==
    FSum([i \in 0..11 |-> FMul(chroma[i], Flt(Template(c, i)))], 0, 12)

\* the update of the matching loop with the comparison not strict
BetterMatchGe(correlation, best_match) == ~FGt(best_match, correlation)

\* if (correlation > best_match)
BetterMatch(correlation, best_match) == FGt(correlation, best_match)

\* the greatest of a finite set of floats
FMax(S) == CHOOSE x \in S : \A y \in S : ~FGt(y, x)

\* best_match when the matching loop reaches template c: every assignment
\* raises it, so it is the initial 0.0f or the greatest correlation before c
BestBefore(correlations, c) ==
    FMax({Flt(0)} \cup {correlations[k] : k \in 0..(c - 1)})

\* best_match and best_chord after the matching loop: those assigned for the
\* last template that passed the if, or the initial 0.0f and 0
MatchTemplates(chroma) ==
    LET correlations ==
            Array([c \in 0..(CHORD_TEMPLATES - 1) |-> Correlation(chroma, c)])
        updates ==
            {c \in 0..(CHORD_TEMPLATES - 1) :
                BetterMatch(correlations[c], BestBefore(correlations, c))}
        last == CHOOSE c \in updates : \A k \in updates : k <= c
    IN  IF updates = {}
        THEN [ best_match |-> Flt(0), best_chord |-> 0 ]
        ELSE [ best_match |-> correlations[last], best_chord |-> last ]

\* analyze_chords(spectrum): current_chord as it leaves it, and its locals
AnalyzeChordsResult(chord, spectrum) ==
    LET accumulated == ChromaAccumulate(spectrum)
        chroma      == ChromaNormalize(accumulated)
        chord1      == IF FGt(FSum(accumulated, 0, 12), Flt(0))
                       THEN [chord EXCEPT !.chroma = chroma]
                       ELSE chord
        b           == MatchTemplates(chroma)
    IN  [ current_chord |->
            IF FGt(b.best_match, ChordThreshold)
            THEN [chord1 EXCEPT !.root_note = b.best_chord % 12,
                                !.chord_type = IF b.best_chord >= 12 THEN 1 ELSE 0,
                                !.confidence = b.best_match]
            ELSE chord1,
          accumulated |-> accumulated,
          chroma      |-> chroma,
          best_match  |-> b.best_match,
          best_chord  |-> b.best_chord ]

\* static chord_info_t current_chord = {0}
ZeroChord ==
    [ root_note |-> 0, chord_type |-> 0, confidence |-> Flt(0),
      chroma |-> [c \in 0..11 |-> Flt(0)] ]

NoFrame ==
    [ analysed |-> FALSE, accumulated |-> [c \in 0..11 |-> Flt(0)],
      chroma |-> [c \in 0..11 |-> Flt(0)], best_match |-> Flt(0), best_chord |-> 0 ]

AnalyzeChords(S) ==
    LET r == AnalyzeChordsResult(current_chord, Spectrum(S))
    IN  /\ current_chord' = r.current_chord
        /\ frame' = [ analysed |-> TRUE, accumulated |-> r.accumulated,
                      chroma |-> r.chroma, best_match |-> r.best_match,
                      best_chord |-> r.best_chord ]

ChordInit ==
    /\ current_chord = ZeroChord
    /\ frame = NoFrame

ChordNext == \E S \in Frames : AnalyzeChords(S)

(***************************************************************************)
(* The two tasks of the musical analysis and the queue between them        *)
(* (main.c).  A frame is identified by its capture number; a buffer or a   *)
(* result carries the number of the frame it was computed from, 0 before   *)
(* the first.                                                              *)
(***************************************************************************)
\* xQueueCreate(4, ...)
QueueLength == 4

\* xQueueSend with xTicksToWait = 0 that makes room by discarding the oldest frame
XQueueSendOverwrite(queue, item) ==
    IF Len(queue) < QueueLength
    THEN [ queue |-> Append(queue, item), ret |-> "pdTRUE" ]
    ELSE [ queue |-> Append(Tail(queue), item), ret |-> "pdTRUE" ]

\* xQueueSend(fft_queue, audio_samples, 0): the item is copied to the back of
\* the queue, or the call returns errQUEUE_FULL at once
XQueueSend(queue, item) ==
    IF Len(queue) < QueueLength
    THEN [ queue |-> Append(queue, item), ret |-> "pdTRUE" ]
    ELSE [ queue |-> queue, ret |-> "errQUEUE_FULL" ]

\* the statements of the consumer's if body, with genre classification ahead
\* of beat detection
NextStageGenreFirst(pc) ==
    IF pc = "perform_fft" THEN "extract_audio_features"
    ELSE IF pc = "extract_audio_features" THEN "classify_genre"
    ELSE IF pc = "classify_genre" THEN "analyze_chords"
    ELSE IF pc = "analyze_chords" THEN "detect_beats"
    ELSE "xQueueReceive"

\* the statements of the consumer's if body, in program order
NextStage(pc) ==
    IF pc = "perform_fft" THEN "extract_audio_features"
    ELSE IF pc = "extract_audio_features" THEN "detect_beats"
    ELSE IF pc = "detect_beats" THEN "analyze_chords"
    ELSE IF pc = "analyze_chords" THEN "classify_genre"
    ELSE "xQueueReceive"

\* i2s_channel_read returns; on ESP_OK with data the samples are converted
I2sChannelRead(ok) ==
    /\ producer.pc = "i2s_channel_read"
    /\ producer.captured < MaxFrames
    /\ producer' = IF ok
                   THEN [ pc |-> "xQueueSend", audio_samples |-> producer.captured + 1,
                          captured |-> producer.captured + 1 ]
                   ELSE [producer EXCEPT !.pc = "vTaskDelay"]
    /\ UNCHANGED <<fft_queue, consumer, accepted, dropped, received>>

\* xQueueSend(fft_queue, audio_samples, 0); its result is not read
QueueSend ==
    LET r == XQueueSend(fft_queue, producer.audio_samples)
    IN  /\ producer.pc = "xQueueSend"
        /\ fft_queue' = r.queue
        /\ accepted' = IF r.ret = "pdTRUE"
                       THEN Append(accepted, producer.audio_samples) ELSE accepted
        /\ dropped' = IF r.ret = "pdTRUE"
                      THEN dropped ELSE dropped \cup {producer.audio_samples}
        /\ producer' = [producer EXCEPT !.pc = "vTaskDelay"]
        /\ UNCHANGED <<consumer, received>>

\* vTaskDelay(pdMS_TO_TICKS(33)) returns
TaskDelay ==
    /\ producer.pc = "vTaskDelay"
    /\ producer' = [producer EXCEPT !.pc = "i2s_channel_read"]
    /\ UNCHANGED <<fft_queue, consumer, accepted, dropped, received>>

\* xQueueReceive(fft_queue, audio_buffer, pdMS_TO_TICKS(100)) returns pdTRUE
QueueReceive ==
    /\ consumer.pc = "xQueueReceive"
    /\ fft_queue # <<>>
    /\ consumer' = [consumer EXCEPT !.pc = "perform_fft",
                                    !.audio_buffer = Head(fft_queue),
                                    !.ret = "pdTRUE",
                                    !.done = <<>>]
    /\ fft_queue' = Tail(fft_queue)
    /\ received' = Append(received, Head(fft_queue))
    /\ UNCHANGED <<producer, accepted, dropped>>

\* the queue stayed empty for the 100 ms: xQueueReceive returns pdFALSE and
\* the while loop calls it again
QueueReceiveTimeout ==
    /\ consumer.pc = "xQueueReceive"
    /\ fft_queue = <<>>
    /\ consumer' = [consumer EXCEPT !.ret = "pdFALSE"]
    /\ UNCHANGED <<fft_queue, producer, accepted, dropped, received>>

\* (float)i * I2S_SAMPLE_RATE / (2.0f * FREQ_BINS): the frequency the
\* extractors of main.c give bin i, as an exact fraction
MainBinFreq(i) == Rat(i * I2S_SAMPLE_RATE, 2 * FREQ_BINS)

\* perform_fft(audio_buffer, fft_output): the transform is taken over
\* N_SAMPLES points and the magnitudes of the first FREQ_BINS bins are written
PerformFft ==
    /\ consumer.pc = "perform_fft"
    /\ consumer' = [consumer EXCEPT !.pc = NextStage("perform_fft"),
                                    !.fft_output = consumer.audio_buffer,
                                    !.spectrum = [ fft_length |-> N_SAMPLES,
                                                   bins |-> FREQ_BINS ],
                                    !.done = Append(consumer.done, "perform_fft")]
    /\ UNCHANGED <<fft_queue, producer, accepted, dropped, received>>

\* extract_audio_features(fft_output, &features)
ExtractAudioFeatures ==
    /\ consumer.pc = "extract_audio_features"
    /\ consumer' = [consumer EXCEPT !.pc = NextStage("extract_audio_features"),
                                    !.features = consumer.fft_output,
                                    !.done = Append(consumer.done, "extract_audio_features")]
    /\ UNCHANGED <<fft_queue, producer, accepted, dropped, received>>

\* detect_beats(&features): beat_tracker is brought up to the frame of features
DetectBeats ==
    /\ consumer.pc = "detect_beats"
    /\ consumer' = [consumer EXCEPT !.pc = NextStage("detect_beats"),
                                    !.beat_tracker = consumer.features,
                                    !.done = Append(consumer.done, "detect_beats")]
    /\ UNCHANGED <<fft_queue, producer, accepted, dropped, received>>

\* analyze_chords(fft_output)
AnalyzeChordsStage ==
    /\ consumer.pc = "analyze_chords"
    /\ consumer' = [consumer EXCEPT !.pc = NextStage("analyze_chords"),
                                    !.chord = consumer.fft_output,
                                    !.done = Append(consumer.done, "analyze_chords")]
    /\ UNCHANGED <<fft_queue, producer, accepted, dropped, received>>

\* classify_genre(&features): reads features and beat_tracker.tempo
ClassifyGenre ==
    /\ consumer.pc = "classify_genre"
    /\ consumer' = [consumer EXCEPT !.pc = NextStage("classify_genre"),
                                    !.genre = [ features |-> consumer.features,
                                                tempo |-> consumer.beat_tracker ],
                                    !.done = Append(consumer.done, "classify_genre")]
    /\ UNCHANGED <<fft_queue, producer, accepted, dropped, received>>

TaskInit ==
    /\ fft_queue = <<>>
    /\ producer = [ pc |-> "i2s_channel_read", audio_samples |-> 0, captured |-> 0 ]
    /\ consumer = [ pc |-> "xQueueReceive", ret |-> "none", audio_buffer |-> 0,
                    fft_output |-> 0, features |-> 0, beat_tracker |-> 0, chord |-> 0,
                    genre |-> [ features |-> 0, tempo |-> 0 ], done |-> <<>>,
                    spectrum |-> [ fft_length |-> 0, bins |-> 0 ] ]
    /\ accepted = <<>>
    /\ dropped = {}
    /\ received = <<>>

\* a step of audio_processing_task
ProducerStep ==
    \/ \E ok \in BOOLEAN : I2sChannelRead(ok)
    \/ QueueSend
    \/ TaskDelay

\* a step of music_analysis_task
ConsumerStep ==
    \/ QueueReceive
    \/ QueueReceiveTimeout
    \/ PerformFft
    \/ ExtractAudioFeatures
    \/ DetectBeats
    \/ AnalyzeChordsStage
    \/ ClassifyGenre

TaskNext ==
    \/ \E ok \in BOOLEAN : I2sChannelRead(ok)
    \/ QueueSend
    \/ TaskDelay
    \/ QueueReceive
    \/ QueueReceiveTimeout
    \/ PerformFft
    \/ ExtractAudioFeatures
    \/ DetectBeats
    \/ AnalyzeChordsStage
    \/ ClassifyGenre

(***************************************************************************)
(* Stage operations of the feature module: audio_apply_window,             *)
(* audio_compute_fft, audio_extract_features, audio_compute_mfcc and       *)
(* audio_compute_chroma.  stage_call holds the last call: the operation,   *)
(* its input and output pointers, the length (length, fft_size or          *)
(* spectrum_size), its result and what the output buffer holds afterwards. *)
(***************************************************************************)
\* spectrum[i] of the calls: 0.0f, 1.0f and 0.3f
Magnitudes == {F32Zero, F32Int(1), F32Lit(10066330, -25)}

\* sample_rate of the calls
StageRates == {8000, 44100}

\* every spectrum of up to MaxBins bins, and the flat and the single-bin
\* spectra of up to MaxWide bins
Spectra ==
    UNION {[0..(n - 1) -> Magnitudes] : n \in 0..MaxBins}
    \cup {[i \in 0..(n - 1) |-> m] : n \in 1..MaxWide, m \in Magnitudes}
    \cup {[i \in 0..(n - 1) |-> IF i = k THEN m ELSE F32Zero] :
             n \in 1..MaxWide, k \in 0..(MaxWide - 1), m \in Magnitudes}

\* the spectra of the audio_compute_mfcc calls
FlatSpectra == {[i \in 0..(n - 1) |-> F32Int(1)] : n \in 0..MaxWide}

\* the spectra of the audio_compute_chroma calls: the flat ones, and those of
\* MaxWide bins with any magnitudes in bins 1..3 and none elsewhere
ChromaSpectra ==
    FlatSpectra
    \cup {[i \in 0..(MaxWide - 1) |-> IF i \in 1..3 THEN m[i] ELSE F32Zero] :
             m \in [1..3 -> Magnitudes]}

\* spectrum_size of a call on the buffer
Size(spectrum) == Cardinality(DOMAIN spectrum)

\* a pointer argument of a call: null or a pointer to one of the buffers
Pointers(buffers) == {NULL} \cup {[ buffer |-> b ] : b \in buffers}

\* an output buffer no call has written
Untouched == [ written |-> 0 ]

\* length and window_type of the audio_apply_window calls
WindowLengths == {0, 1, 2, 64}

StageWindowTypes == {0, 1, 2, 3}

\* fft_size of the audio_compute_fft calls
StageFftSizes == {0, 32, 63, 64, 1024, 4096, 8192}

\* what dsps_fft2r_fc32 of the ESP-DSP library may return
DspFftResults == {"ESP_OK", "ESP_ERR_DSP_INVALID_LENGTH", "ESP_ERR_DSP_UNINITIALIZED"}

\* the configurations the pipeline is constructed with before stage calls
StageConfigs ==
    { [ sample_rate |-> 44100, fft_size |-> 64, window_type |-> w,
        hop_size |-> 256, normalize |-> FALSE ] : w \in {0, 3} }

\* audio_apply_window: the result, and for the output buffer the number of
\* elements written, the coefficients they were multiplied with and the
\* denominators length - 1 the coefficients were computed with
AudioApplyWindow(samples, windowed_samples, length, window_type) ==
    IF samples = NULL \/ windowed_samples = NULL
    THEN [ ret |-> "ESP_ERR_INVALID_ARG", out |-> Untouched ]
    ELSE IF /\ g_window_coeffs # NULL
            /\ length = g_audio_config.fft_size
            /\ window_type = g_audio_config.window_type
    THEN [ ret |-> "ESP_OK",
           out |-> [ written |-> length, coeffs |-> g_window_coeffs,
                     denominators |-> {} ] ]
    ELSE [ ret |-> "ESP_OK",
           out |-> [ written |-> length,
                     coeffs |-> WindowBuffer(window_type, length),
                     denominators |->
                         IF WindowShape(window_type) # "rectangular" /\ length > 0
                         THEN {length - 1} ELSE {} ] ]

\* audio_compute_fft: the result and the number of magnitude bins written
AudioComputeFft(input_samples, fft_output, fft_size, malloc_ok, dsp_ret) ==
    IF input_samples = NULL \/ fft_output = NULL
    THEN [ ret |-> "ESP_ERR_INVALID_ARG", out |-> Untouched ]
    ELSE IF ~malloc_ok
    THEN [ ret |-> "ESP_ERR_NO_MEM", out |-> Untouched ]
    ELSE IF dsp_ret # "ESP_OK"
    THEN [ ret |-> dsp_ret, out |-> Untouched ]
    ELSE [ ret |-> "ESP_OK",
           out |-> [ written |-> fft_size \div 2, dc |-> 0, fft_size |-> fft_size ] ]

\* (float)i * sample_rate / (2.0f * size)
BinFreq(i, size, sample_rate) ==
    F32Div(F32Mul(F32Int(i), F32Int(sample_rate)), F32Mul(F32Int(2), F32Int(size)))

CalculateSpectralCentroid(spectrum, size, sample_rate) ==
    LET weighted == Array([i \in 1..(size - 1) |->
                              F32Mul(BinFreq(i, size, sample_rate), spectrum[i])])
        weighted_sum  == F32Sum(weighted, 1, size)
        magnitude_sum == F32Sum(spectrum, 1, size)
    IN  IF F32Gt(magnitude_sum, F32Zero)
        THEN F32Div(weighted_sum, magnitude_sum)
        ELSE F32Zero

\* the rolloff test with a strict comparison
RolloffReachedGt(cumulative_energy, energy_threshold) ==
    F32Gt(cumulative_energy, energy_threshold)

\* cumulative_energy >= energy_threshold
RolloffReached(cumulative_energy, energy_threshold) ==
    F32Ge(cumulative_energy, energy_threshold)

\* the second loop of calculate_spectral_rolloff from bin i on
RECURSIVE RolloffLoop(_, _, _, _, _, _)
RolloffLoop(spectrum, size, sample_rate, energy_threshold, i, cumulative_energy) ==
    IF i >= size THEN F32Div(F32Int(sample_rate), F32Int(2))
    ELSE LET c == F32Add(cumulative_energy, spectrum[i])
         IN  IF RolloffReached(c, energy_threshold)
             THEN BinFreq(i, size, sample_rate)
             ELSE RolloffLoop(spectrum, size, sample_rate, energy_threshold, i + 1, c)

CalculateSpectralRolloff(spectrum, size, sample_rate, threshold) ==
    LET total_energy == F32Sum(spectrum, 1, size)
    IN  RolloffLoop(spectrum, size, sample_rate,
                    F32Mul(threshold, total_energy), 1, F32Zero)

\* 0.85f
RolloffThreshold == F32Lit(14260634, -24)

\* features->energy
SpectralEnergy(spectrum, size) ==
    LET squares == Array([i \in 1..(size - 1) |-> F32Mul(spectrum[i], spectrum[i])])
    IN  F32Sqrt(F32Sum(squares, 1, size))

\* features->spectral_spread
SpectralSpread(spectrum, size, sample_rate, centroid) ==
    LET terms == Array([i \in 1..(size - 1) |->
                    LET diff == F32Sub(BinFreq(i, size, sample_rate), centroid)
                    IN  F32Mul(F32Mul(diff, diff), spectrum[i])])
        spread_sum    == F32Sum(terms, 1, size)
        magnitude_sum == F32Sum(spectrum, 1, size)
    IN  IF F32Gt(magnitude_sum, F32Zero)
        THEN F32Sqrt(F32Div(spread_sum, magnitude_sum))
        ELSE F32Zero

\* audio_compute_mfcc: the result and the number of coefficients written
AudioComputeMfcc(spectrum, sample_rate, mfcc) ==
    IF spectrum = NULL \/ mfcc = NULL
    THEN [ ret |-> "ESP_ERR_INVALID_ARG", out |-> Untouched ]
    ELSE [ ret |-> "ESP_OK", out |-> [ written |-> 13 ] ]

\* the lower edges 440 * 2^((n - 69.5) / 12) of the semitone bands of the MIDI
\* notes n = 39..96, in units of 2^-10 Hz; band n holds the frequencies for
\* which 12 log2(freq / 440) + 69 rounds to n
SemitoneEdges ==
    << 77381, 81982, 86857, 92022, 97494, 103291, 109433, 115941,
       122835, 130139, 137877, 146076, 154762, 163965, 173715, 184044,
       194988, 206583, 218867, 231881, 245670, 260278, 275755, 292152,
       309524, 327930, 347429, 368088, 389976, 413165, 437733, 463762,
       491339, 520556, 551510, 584304, 619049, 655859, 694859, 736177,
       779952, 826331, 875467, 927525, 982678, 1041111, 1103019, 1168608,
       1238097, 1311718, 1389717, 1472354, 1559905, 1652661, 1750934, 1855050,
       1965357, 2082223 >>

SemitoneEdgesF32 ==
    Array([k \in 1..Len(SemitoneEdges) |-> F32Lit(SemitoneEdges[k], -10)])

\* freq > 80.0f && freq < 2000.0f
InChromaRange(freq) == F32Gt(freq, F32Int(80)) /\ F32Gt(F32Int(2000), freq)

\* (int)roundf(12.0f * log2f(freq / 440.0f) + 69.0f) of a frequency of the
\* chroma range: the note whose band holds freq
MidiNote(freq) ==
    38 + Cardinality({k \in 1..Len(SemitoneEdges) : F32Ge(freq, SemitoneEdgesF32[k])})

\* the remainder of the C operator %, which has the sign of n
CRemainder(n, d) == IF n >= 0 THEN n % d ELSE -((-n) % d)

\* pitch_class = note % 12; if (pitch_class < 0) pitch_class += 12
ChromaPitchClass(note) ==
    IF CRemainder(note, 12) < 0 THEN CRemainder(note, 12) + 12
    ELSE CRemainder(note, 12)

\* pitch_class of the bins of the chroma range, -1 for the other bins
BinPitchClasses(size, sample_rate) ==
    Array([i \in 1..(size - 1) |->
              LET freq == BinFreq(i, size, sample_rate)
              IN  IF InChromaRange(freq) THEN ChromaPitchClass(MidiNote(freq))
                  ELSE -1])

\* the pitch classes of the bins for every size and rate of the calls,
\* computed once
BinPitchClassTable ==
    Array([x \in (0..MaxWide) \X StageRates |-> BinPitchClasses(x[1], x[2])])

\* the accumulation loop of audio_compute_chroma: chroma[c] is the sum, in
\* bin order from 0.0f, of the magnitudes of the bins of pitch class c (a bin
\* of another class adds nothing to it)
ChromaLoop(spectrum, size, sample_rate) ==
    LET pitch_class == BinPitchClassTable[<<size, sample_rate>>]
    IN  Array([c \in 0..11 |->
                  F32Sum(Array([i \in 1..(size - 1) |->
                                   IF pitch_class[i] = c THEN spectrum[i]
                                   ELSE F32Zero]),
                         1, size)])

\* the chroma vector left as accumulated
ChromaScaleNone(chroma, chroma_sum) == chroma

\* if (chroma_sum > 0) chroma[i] /= chroma_sum
ChromaScale(chroma, chroma_sum) ==
    IF F32Gt(chroma_sum, F32Zero)
    THEN Array([c \in 0..11 |-> F32Div(chroma[c], chroma_sum)])
    ELSE chroma

\* the chroma vector audio_compute_chroma leaves for a spectrum
ChromaVector(spectrum, sample_rate) ==
    LET accumulated == ChromaLoop(spectrum, Size(spectrum), sample_rate)
    IN  ChromaScale(accumulated, F32Sum(accumulated, 0, 12))

\* the chroma vector of every spectrum and rate of the calls, computed once
ChromaTable ==
    Array([x \in (Spectra \cup ChromaSpectra) \X StageRates |->
              ChromaVector(x[1], x[2])])

\* audio_compute_chroma: the result, the number of pitch classes written and
\* their values
AudioComputeChroma(spectrum, sample_rate, chroma) ==
    IF spectrum = NULL \/ chroma = NULL
    THEN [ ret |-> "ESP_ERR_INVALID_ARG", out |-> Untouched ]
    ELSE [ ret |-> "ESP_OK",
           out |-> [ written |-> 12,
                     chroma |-> ChromaTable[<<spectrum.buffer, sample_rate>>] ] ]

\* the scalar statistics audio_extract_features stores for a spectrum
SpectralStatistics(spectrum, sample_rate) ==
    LET size     == Size(spectrum)
        centroid == CalculateSpectralCentroid(spectrum, size, sample_rate)
    IN  [ energy            |-> SpectralEnergy(spectrum, size),
          spectral_centroid |-> centroid,
          spectral_rolloff  |->
              CalculateSpectralRolloff(spectrum, size, sample_rate, RolloffThreshold),
          spectral_spread   |-> SpectralSpread(spectrum, size, sample_rate, centroid) ]

\* the statistics of every spectrum and rate of the calls, computed once
StatisticsTable ==
    Array([x \in Spectra \X StageRates |-> SpectralStatistics(x[1], x[2])])

\* audio_extract_features: the result and the features structure
AudioExtractFeatures(spectrum, sample_rate, features) ==
    IF spectrum = NULL \/ features = NULL
    THEN [ ret |-> "ESP_ERR_INVALID_ARG", out |-> Untouched ]
    ELSE [ ret |-> "ESP_OK",
           out |-> [ written |-> 1,
                     spectral_skewness |-> F32Zero,
                     spectral_kurtosis |-> F32Zero,
                     zero_crossing_rate |-> F32Zero,
                     tempo |-> F32Zero,
                     mfcc |-> AudioComputeMfcc(spectrum, sample_rate, features).out,
                     chroma |-> AudioComputeChroma(spectrum, sample_rate, features).out,
                     timestamp |-> timer ]
                   @@ StatisticsTable[<<spectrum.buffer, sample_rate>>] ]

ApplyWindowCall ==
    \E samples \in Pointers({"samples"}), windowed \in Pointers({"windowed_samples"}),
       length \in WindowLengths, window_type \in StageWindowTypes :
        stage_call' =
            [ op |-> "audio_apply_window", input |-> samples, output |-> windowed,
              length |-> length, window_type |-> window_type ]
            @@ AudioApplyWindow(samples, windowed, length, window_type)

ComputeFftCall ==
    \E input \in Pointers({"input_samples"}), output \in Pointers({"fft_output"}),
       fft_size \in StageFftSizes, malloc_ok \in BOOLEAN, dsp_ret \in DspFftResults :
        stage_call' =
            [ op |-> "audio_compute_fft", input |-> input, output |-> output,
              length |-> fft_size ]
            @@ AudioComputeFft(input, output, fft_size, malloc_ok, dsp_ret)

ExtractFeaturesCall ==
    \E spectrum \in Pointers(Spectra), sample_rate \in StageRates,
       features \in Pointers({"features"}) :
        stage_call' =
            [ op |-> "audio_extract_features", input |-> spectrum, output |-> features,
              length |-> IF spectrum = NULL THEN 0 ELSE Size(spectrum.buffer),
              sample_rate |-> sample_rate ]
            @@ AudioExtractFeatures(spectrum, sample_rate, features)

ComputeMfccCall ==
    \E spectrum \in Pointers(FlatSpectra), sample_rate \in StageRates,
       mfcc \in Pointers({"mfcc"}) :
        stage_call' =
            [ op |-> "audio_compute_mfcc", input |-> spectrum, output |-> mfcc,
              length |-> IF spectrum = NULL THEN 0 ELSE Size(spectrum.buffer),
              sample_rate |-> sample_rate ]
            @@ AudioComputeMfcc(spectrum, sample_rate, mfcc)

ComputeChromaCall ==
    \E spectrum \in Pointers(ChromaSpectra), sample_rate \in StageRates,
       chroma \in Pointers({"chroma"}) :
        stage_call' =
            [ op |-> "audio_compute_chroma", input |-> spectrum, output |-> chroma,
              length |-> IF spectrum = NULL THEN 0 ELSE Size(spectrum.buffer),
              sample_rate |-> sample_rate ]
            @@ AudioComputeChroma(spectrum, sample_rate, chroma)

\* audio_processing_init before the stage calls
StageProcessingInit ==
    \E config \in StageConfigs : AudioProcessingInit(config, "ESP_OK", TRUE)

StageInit ==
    stage_call = [ op |-> "none", ret |-> "none", out |-> Untouched ]

StageNext ==
    \/ StageProcessingInit /\ UNCHANGED stage_call
    \/ ApplyWindowCall /\ UNCHANGED pipe_vars
    \/ ComputeFftCall /\ UNCHANGED pipe_vars
    \/ ExtractFeaturesCall /\ UNCHANGED pipe_vars
    \/ ComputeMfccCall /\ UNCHANGED pipe_vars
    \/ ComputeChromaCall /\ UNCHANGED pipe_vars

(***************************************************************************)
(* The chord estimate shared by music_analysis_task, which stores it in    *)
(* analyze_chords, and visualization_task, which reads it for its log      *)
(* line (main.c).  No lock or queue protects current_chord: each store and *)
(* each load of a field is a step of its own, and the steps of the two     *)
(* tasks interleave freely.  A field is an aligned 32-bit word, which the  *)
(* processor stores and loads whole.                                       *)
(***************************************************************************)
\* best_chord and best_match of the frames analysed while the display runs
VizChords == {0, 7, 11, 12, 23}

VizMatches == {Rat(3, 10), Rat(1, 2), Rat(1, 1)}

chord_names ==
    Array([i \in 0..23 |->
             <<"C", "C#", "D", "D#", "E", "F", "F#", "G", "G#", "A", "A#", "B",
               "Cm", "C#m", "Dm", "D#m", "Em", "Fm", "F#m", "Gm", "G#m", "Am",
               "A#m", "Bm">>[i + 1]])

\* the root note stored without the reduction modulo 12
RootNoteUnreduced(best_chord) == best_chord

\* best_chord % 12
RootNote(best_chord) == best_chord % 12

\* (best_chord >= 12) ? 1 : 0
ChordType(best_chord) == IF best_chord >= 12 THEN 1 ELSE 0

\* the template matching of a frame ends: if (best_match > 0.3f)
MatchDone(best_chord, best_match) ==
    /\ analysis.pc = "match"
    /\ analysis' = IF FGt(best_match, ChordThreshold)
                   THEN [ pc |-> "root_note", best_chord |-> best_chord,
                          best_match |-> best_match ]
                   ELSE analysis
    /\ UNCHANGED <<current_chord, frame, viz>>

\* current_chord.root_note = best_chord % 12
StoreRootNote ==
    /\ analysis.pc = "root_note"
    /\ current_chord' =
           [current_chord EXCEPT !.root_note = RootNote(analysis.best_chord)]
    /\ analysis' = [analysis EXCEPT !.pc = "chord_type"]
    /\ UNCHANGED <<frame, viz>>

\* current_chord.chord_type = (best_chord >= 12) ? 1 : 0
StoreChordType ==
    /\ analysis.pc = "chord_type"
    /\ current_chord' =
           [current_chord EXCEPT !.chord_type = ChordType(analysis.best_chord)]
    /\ analysis' = [analysis EXCEPT !.pc = "confidence"]
    /\ UNCHANGED <<frame, viz>>

\* current_chord.confidence = best_match
StoreConfidence ==
    /\ analysis.pc = "confidence"
    /\ current_chord' = [current_chord EXCEPT !.confidence = analysis.best_match]
    /\ analysis' = [analysis EXCEPT !.pc = "match"]
    /\ UNCHANGED <<frame, viz>>

\* the fields the log line reads
VizFields == {"confidence", "root_note", "chord_type"}

\* the log line loads a field of current_chord; the loads are plain loads
\* and happen in any order
VizLoad(field) ==
    /\ field \notin viz.loaded
    /\ viz' = [viz EXCEPT ![field] = current_chord[field],
                          !.loaded = viz.loaded \cup {field}]
    /\ UNCHANGED <<current_chord, frame, analysis>>

\* the entry of chord_names at an index; a load outside the table yields
\* none of its names
ChordName(index) ==
    IF index \in DOMAIN chord_names THEN chord_names[index] ELSE "(outside the table)"

\* confidence > 0.3f ? chord_names[root_note + (chord_type * 12)] : "Unknown"
VizLog ==
    /\ viz.loaded = VizFields
    /\ viz' = [viz EXCEPT !.loaded = {},
                          !.logged = TRUE,
                          !.index = viz.root_note + (viz.chord_type * 12),
                          !.name = IF FGt(viz.confidence, ChordThreshold)
                                   THEN ChordName(viz.root_note + (viz.chord_type * 12))
                                   ELSE "Unknown"]
    /\ UNCHANGED <<current_chord, frame, analysis>>

VizInit ==
    /\ analysis = [ pc |-> "match", best_chord |-> 0, best_match |-> Flt(0) ]
    /\ viz = [ loaded |-> {}, logged |-> FALSE, confidence |-> Flt(0),
               root_note |-> 0, chord_type |-> 0, index |-> 0, name |-> "Unknown" ]

VizNext ==
    \/ \E best_chord \in VizChords, best_match \in VizMatches :
           MatchDone(best_chord, best_match)
    \/ StoreRootNote
    \/ StoreChordType
    \/ StoreConfidence
    \/ \E field \in VizFields : VizLoad(field)
    \/ VizLog

(***************************************************************************)
(* Specifications: one per part of the pipeline, the other parts at rest.  *)
(***************************************************************************)
BeatSpecInit == BeatInit /\ PipeInit /\ ChordInit /\ TaskInit /\ StageInit /\ VizInit

BeatSpecNext == BeatNext /\ UNCHANGED <<pipe_vars, chord_vars, task_vars, stage_vars, viz_vars>>

BeatSpec == BeatSpecInit /\ [][BeatSpecNext]_vars

PipeSpecInit == BeatInit /\ PipeInit /\ ChordInit /\ TaskInit /\ StageInit /\ VizInit

PipeSpecNext == PipeNext /\ UNCHANGED <<beat_vars, chord_vars, task_vars, stage_vars, viz_vars>>

PipeSpec == PipeSpecInit /\ [][PipeSpecNext]_vars

ChordSpecInit == BeatInit /\ PipeInit /\ ChordInit /\ TaskInit /\ StageInit /\ VizInit

ChordSpecNext == ChordNext /\ UNCHANGED <<beat_vars, pipe_vars, task_vars, stage_vars, viz_vars>>

ChordSpec == ChordSpecInit /\ [][ChordSpecNext]_vars

BeatErrSpecInit == BeatInit /\ PipeInit /\ ChordInit /\ TaskInit /\ StageInit /\ VizInit

BeatErrSpecNext == BeatErrNext /\ UNCHANGED <<pipe_vars, chord_vars, task_vars, stage_vars, viz_vars>>

BeatErrSpec == BeatErrSpecInit /\ [][BeatErrSpecNext]_vars

BeatEdgeSpecInit == BeatInit /\ PipeInit /\ ChordInit /\ TaskInit /\ StageInit /\ VizInit

BeatEdgeSpecNext == BeatEdgeNext /\ UNCHANGED <<pipe_vars, chord_vars, task_vars, stage_vars, viz_vars>>

BeatEdgeSpec == BeatEdgeSpecInit /\ [][BeatEdgeSpecNext]_vars

BeatRingSpecInit == BeatInit /\ PipeInit /\ ChordInit /\ TaskInit /\ StageInit /\ VizInit

BeatRingSpecNext == BeatRingNext /\ UNCHANGED <<pipe_vars, chord_vars, task_vars, stage_vars, viz_vars>>

BeatRingSpec == BeatRingSpecInit /\ [][BeatRingSpecNext]_vars

VizSpecInit ==
    BeatInit /\ PipeInit /\ ChordInit /\ TaskInit /\ StageInit /\ VizInit

VizSpecNext == VizNext /\ UNCHANGED <<beat_vars, pipe_vars, task_vars, stage_vars>>

VizSpec == VizSpecInit /\ [][VizSpecNext]_vars

TaskSpecInit == BeatInit /\ PipeInit /\ ChordInit /\ TaskInit /\ StageInit /\ VizInit

TaskSpecNext ==
    TaskNext /\ UNCHANGED <<beat_vars, pipe_vars, chord_vars, stage_vars, viz_vars>>

TaskSpec == TaskSpecInit /\ [][TaskSpecNext]_vars

\* the two tasks under the scheduler: audio_processing_task has core 1 to
\* itself, music_analysis_task has the highest priority of the tasks on core
\* 0, so a task that can take a step is not kept from it for ever
TaskFairSpecInit ==
    BeatInit /\ PipeInit /\ ChordInit /\ TaskInit /\ StageInit /\ VizInit

TaskFairSpecNext ==
    TaskNext /\ UNCHANGED <<beat_vars, pipe_vars, chord_vars, stage_vars, viz_vars>>

TaskFairSpec ==
    /\ TaskFairSpecInit
    /\ [][TaskFairSpecNext]_vars
    /\ WF_vars(ProducerStep /\ TaskFairSpecNext)
    /\ WF_vars(ConsumerStep /\ TaskFairSpecNext)

StageSpecInit == BeatInit /\ PipeInit /\ ChordInit /\ TaskInit /\ StageInit /\ VizInit

StageSpecNext == StageNext /\ UNCHANGED <<beat_vars, chord_vars, task_vars, viz_vars>>

StageSpec == StageSpecInit /\ [][StageSpecNext]_vars

(***************************************************************************)
(* Claims about the beat tracker.                                          *)
(***************************************************************************)

\* mean of the 16-slot energy ring as it stands after the call
RingMean == F32Div(F32Sum(detector.energy_history, 0, 16), F32Int(16))

\* C1: a process call reports beat_detected = true if and only if the frame's
\* energy is strictly greater than 1.3 x the mean of the 16-slot ring (taken
\* after the frame's energy was written) and timestamp - last_beat_time is
\* strictly greater than 200000 us; otherwise it reports false.
C1_BeatIff ==
    calls > 0 =>
        (call.beat_detected <=>
            /\ F32Gt(call.energy, F32Mul(F32Lit(10905190, -23), RingMean))
            /\ call.timestamp - prior.last_beat_time > 200000)

\* a beat reported exactly 200001 us after the previous one
C1_Witness ==
    /\ call.beat_detected
    /\ prior.beat_count >= 1
    /\ call.timestamp - prior.last_beat_time = 200001

\* C2: with non-decreasing timestamps, any two calls that both report a beat
\* have timestamps more than 200000 us apart.
C2_Refractory ==
    \A i, j \in 1..Len(beat_times) :
        i < j => beat_times[j] - beat_times[i] > 200000

\* two beats were reported, and the last call was an above-threshold spike less
\* than 200 ms after the second one, which reported no beat
C2_Witness ==
    /\ Len(beat_times) >= 2
    /\ ~call.beat_detected
    /\ F32Gt(call.energy, F32Mul(F32Lit(10905190, -23), RingMean))
    /\ call.timestamp - beat_times[Len(beat_times)] < 200000

\* C3: when a beat fires with beat_count > 0 the interval is stored in the
\* 8-slot ring and tempo is 60 / mean of min(beat_count, 8) ring entries, each
\* of which was stored by this or an earlier beat, the slot just written
\* being one of them.
C3_TempoFromStoredIntervals ==
    call.interval_idx # -1 =>
        /\ \A i \in 0..(call.count - 1) : i \in stored_slots
        /\ call.interval_idx \in 0..(call.count - 1)
        /\ detector.tempo =
             F32Div(F32Int(60), F32Div(F32Sum(detector.beat_intervals, 0, call.count),
                                F32Int(call.count)))

\* C4: confidence is never the result of a division by zero: a beat that
\* fires while the ring average is 0 sets confidence to 0.
C4_ConfidenceGuarded ==
    /\ F32IsFinite(detector.confidence)
    /\ (call.beat_detected /\ call.avg_energy = F32Zero) => detector.confidence = F32Zero

\* C13: when audio_beat_detector_process returns an error (null detector,
\* features or output pointer) every field of the beat tracker state and the
\* caller's beat flag are unchanged, so later valid frames see the state they
\* would have seen without the failed call.
C13_RejectedCallKeepsTracker ==
    [][call'.ret = "ESP_ERR_INVALID_ARG" =>
          /\ detector' = detector
          /\ call'.beat_detected = call.beat_detected]_vars

\* a call was rejected after two beats had been tracked
C13_Witness ==
    /\ call.ret = "ESP_ERR_INVALID_ARG"
    /\ detector.beat_count >= 2
    /\ stored_slots # {}

\* C22: each successful process call writes the frame's energy at the current
\* ring index and advances the index by 1 modulo 16: the index is in 0..15,
\* after k calls the ring holds the last min(k, 16) energies (here the k-th
\* energy is k) and 0 in every other slot, and the average used for the
\* threshold is the ring sum divided by 16 also when k < 16.
C22_RingHoldsLastEnergies ==
    /\ detector.history_index \in 0..15
    /\ detector.history_index = calls % 16
    /\ \A i \in 0..15 :
           LET last == {j \in 1..calls : j > calls - 16 /\ (j - 1) % 16 = i}
           IN  detector.energy_history[i] =
                   IF last = {} THEN F32Zero ELSE F32Int(CHOOSE j \in last : TRUE)
    /\ calls > 0 =>
           call.avg_energy = F32Div(F32Sum(detector.energy_history, 0, 16), F32Int(16))

\* the ring has wrapped: the 17th energy replaced the first
C22_Witness ==
    /\ calls >= 17
    /\ detector.energy_history[0] = F32Int(17)
    /\ detector.energy_history[15] = F32Int(16)

\* C23: the tracker is Idle (beat_count = 0) from initialisation until the
\* first beat and Tracking (beat_count >= 1) afterwards; beat_count grows by
\* exactly 1 on each call that reports a beat and never otherwise; the first
\* beat stores no interval and leaves tempo at its initial value; every
\* process call, made in whatever state, is accepted.
C23_IdleThenTracking ==
    /\ (detector.beat_count = 0) = (beat_times = <<>>)
    /\ detector.beat_count = Len(beat_times)
    /\ (detector.beat_count <= 1 =>
           /\ detector.tempo = F32Int(120)
           /\ \A i \in 0..7 : detector.beat_intervals[i] = F32Zero)
    /\ (calls > 0 =>
           /\ call.ret = "ESP_OK"
           /\ detector.history_index = (prior.history_index + 1) % 16
           /\ detector.beat_count =
                  IF call.beat_detected THEN prior.beat_count + 1
                  ELSE prior.beat_count
           /\ (call.beat_detected /\ prior.beat_count = 0 =>
                  /\ detector.tempo = prior.tempo
                  /\ detector.beat_intervals = prior.beat_intervals))

\* the first beat, after a frame on which the tracker stayed Idle
C23_Witness ==
    /\ calls >= 2
    /\ call.beat_detected
    /\ prior.beat_count = 0
    /\ detector.beat_count = 1
    /\ detector.tempo = F32Int(120)

\* C27: a successful process call that reports no beat changes only the
\* energy ring slot at the old index and the ring index: tempo, confidence,
\* last_beat_time, beat_count and the interval ring are as before the call.
C27_NonBeatCallTouchesRingOnly ==
    calls > 0 /\ call.ret = "ESP_OK" /\ ~call.beat_detected =>
        detector = [prior EXCEPT
                      !.energy_history[prior.history_index] = call.energy,
                      !.history_index = (prior.history_index + 1) % 16]

\* a frame without a beat after two beats, so that tempo, confidence, the
\* interval ring and last_beat_time all hold values of earlier beats
C27_Witness ==
    /\ ~call.beat_detected
    /\ call.ret = "ESP_OK"
    /\ prior.beat_count = 2
    /\ detector.confidence # F32Zero
    /\ detector.beat_intervals[1] # F32Zero
    /\ detector.energy_history[prior.history_index] # prior.energy_history[prior.history_index]

\* C28: from a freshly initialised tracker (last_beat_time = 0) no beat is
\* reported on a frame whose timestamp is at most 200000 us, whatever the
\* energies; the first beat is reported on a frame with a timestamp above
\* 200000 whose energy exceeds the threshold.
C28_NoBeatInFirst200ms ==
    /\ \A i \in 1..Len(beat_times) : beat_times[i] > 200000
    /\ (calls > 0 /\ call.timestamp <= 200000 =>
           ~call.beat_detected /\ detector.beat_count = 0)
    /\ (call.beat_detected /\ prior.beat_count = 0 =>
           /\ call.timestamp > 200000
           /\ F32Gt(call.energy, F32Mul(F32Lit(10905190, -23), call.avg_energy)))

\* the second frame arrives at exactly 200000 us with its energy above the
\* threshold and reports no beat
C28_Witness ==
    /\ calls = 2
    /\ call.timestamp = 200000
    /\ F32Gt(call.energy, F32Mul(F32Lit(10905190, -23), call.avg_energy))
    /\ ~call.beat_detected
    /\ detector.beat_count = 0
    /\ detector.last_beat_time = 0

\* C25: when a beat is reported in a session whose energies are all
\* non-negative, the ring average is strictly positive, so the division of
\* the confidence has a nonzero divisor, and the confidence is finite,
\* strictly positive and above 0.2999.
C25_ConfidencePositive ==
    call.beat_detected =>
        /\ F32Gt(call.avg_energy, F32Zero)
        /\ F32IsFinite(detector.confidence)
        /\ F32Gt(detector.confidence, F32Div(F32Int(2999), F32Int(10000)))

\* C25 as stated: the confidence of a reported beat is strictly greater than
\* 0.3, that is, at least the float 0.3f, the smallest one above 0.3
C25_ConfidenceAboveThreshold ==
    call.beat_detected =>
        /\ F32Gt(call.avg_energy, F32Zero)
        /\ F32Ge(detector.confidence, F32Lit(10066330, -25))

\* the second beat is reported on an energy one float above the threshold
\* and its confidence is below 0.3f
C25_Witness ==
    /\ call.beat_detected
    /\ prior.beat_count = 1
    /\ F32Gt(call.avg_energy, F32Zero)
    /\ F32Gt(detector.confidence, F32Zero)
    /\ F32Gt(F32Lit(10066330, -25), detector.confidence)

(***************************************************************************)
(* Claims about pipeline construction and the cached window.               *)
(***************************************************************************)

\* C5: a regeneration of the cached window coefficients that fails on
\* allocation leaves the cache holding the coefficients it held before.
C5_FailedRegenerationKeepsCache ==
    [][(init_call'.step = "generate_window_coeffs" /\ g_window_coeffs # NULL)
          => g_window_coeffs' = g_window_coeffs]_vars

\* C6: when audio_processing_init returns an error, the stored configuration,
\* the cached window coefficients and the initialized flag are as before.
C6_FailedInitLeavesState ==
    [][init_call'.ret # "ESP_OK" =>
          /\ g_audio_config' = g_audio_config
          /\ g_window_coeffs' = g_window_coeffs
          /\ g_initialized' = g_initialized]_vars

IsPowerOfTwo(n) == n \in {1, 2, 4, 8, 16, 32, 64, 128, 256, 512, 1024, 2048, 4096, 8192}

ValidConfig(config) ==
    /\ config # NULL
    /\ config.sample_rate >= 8000 /\ config.sample_rate <= 96000
    /\ config.fft_size >= 64 /\ config.fft_size <= 4096
    /\ IsPowerOfTwo(config.fft_size)

\* C7: audio_processing_init returns InvalidArgument for every configuration
\* with sample_rate outside [8000, 96000], fft_size outside [64, 4096] or
\* fft_size not a power of two, and succeeds only when all three hold.
C7_InvalidConfigRejected ==
    init_call.ret # "none" =>
        /\ (init_call.config # NULL /\ ~ValidConfig(init_call.config))
              => init_call.ret = "ESP_ERR_INVALID_ARG"
        /\ init_call.ret = "ESP_OK" => ValidConfig(init_call.config)

(***************************************************************************)
(* Claims about the stage operations and the spectral statistics.          *)
(***************************************************************************)

\* C14: every stage operation called with a null buffer or with a zero-length
\* buffer returns InvalidArgument and writes nothing to its output.
C14_NullOrEmptyBufferRejected ==
    /\ stage_call.op # "none"
    /\ \/ stage_call.input = NULL
       \/ stage_call.output = NULL
       \/ stage_call.length = 0
    => /\ stage_call.ret = "ESP_ERR_INVALID_ARG"
       /\ stage_call.out = Untouched

\* C15: window generation and window application fail with InvalidArgument
\* whenever the length is less than 2, and no coefficient is computed with a
\* denominator length - 1 that is 0 or negative.
C15_ShortWindowRejected ==
    /\ g_window_coeffs # NULL => g_window_coeffs.length - 1 > 0
    /\ stage_call.op = "audio_apply_window" =>
        /\ stage_call.length < 2 => stage_call.ret = "ESP_ERR_INVALID_ARG"
        /\ stage_call.ret = "ESP_OK" =>
               \A d \in stage_call.out.denominators : d > 0

\* C16: audio_compute_fft returns InvalidArgument without writing a bin for
\* every N that is not a power of two or lies outside [64, 4096]; for a valid
\* N a successful call writes exactly N/2 bins, bin 0 being DC.
C16_FftSizeValidated ==
    /\ stage_call.op = "audio_compute_fft"
    /\ stage_call.input # NULL
    /\ stage_call.output # NULL
    => IF /\ IsPowerOfTwo(stage_call.length)
          /\ stage_call.length >= MinFftSize
          /\ stage_call.length <= MaxFftSize
       THEN stage_call.ret = "ESP_OK" =>
                /\ stage_call.out.written * 2 = stage_call.length
                /\ stage_call.out.dc = 0
       ELSE /\ stage_call.ret = "ESP_ERR_INVALID_ARG"
            /\ stage_call.out = Untouched

\* C17: a pipeline init that presents the (shape, length) pair the cache
\* already holds leaves the cached coefficients as they are.
C17_SamePairReusesCache ==
    [][/\ init_call'.config # NULL
       /\ g_window_coeffs # NULL
       /\ g_window_coeffs = WindowBuffer(init_call'.config.window_type,
                                         init_call'.config.fft_size)
       => g_window_coeffs' = g_window_coeffs]_vars

\* the spectrum and the statistics of an audio_extract_features call that
\* returned ESP_OK
Extracted == stage_call.op = "audio_extract_features" /\ stage_call.ret = "ESP_OK"

\* a spectrum with the same magnitude m in every bin
Flat(spectrum, m) == \A i \in DOMAIN spectrum : spectrum[i] = m

F32Abs(a) == <<Abs(a[1]), a[2], a[3]>>

C19_ZeroSpectrumZeroStatistics ==
    (Extracted /\ stage_call.length >= 2 /\ Flat(stage_call.input.buffer, F32Zero)) =>
        /\ stage_call.out.energy = F32Zero
        /\ stage_call.out.spectral_centroid = F32Zero
        /\ stage_call.out.spectral_rolloff = F32Zero
        /\ stage_call.out.spectral_spread = F32Zero

\* C20: for a spectrum whose only nonzero entry is at bin k feature extraction
\* yields spectral_centroid equal to freq(k) = k*sample_rate/(2*spectrum_size)
\* and spectral_spread 0, for every bin k.
C20_SingleBinCentroidExact ==
    Extracted =>
        \A k \in DOMAIN stage_call.input.buffer :
            (/\ stage_call.input.buffer[k] # F32Zero
             /\ \A i \in DOMAIN stage_call.input.buffer \ {k} :
                    stage_call.input.buffer[i] = F32Zero)
            => /\ stage_call.out.spectral_centroid =
                      BinFreq(k, stage_call.length, stage_call.sample_rate)
               /\ stage_call.out.spectral_spread = F32Zero

\* C26: whenever the cached window buffer is non-null it holds exactly
\* fft_size coefficients generated for the (window_type, fft_size) stored in
\* the global configuration, after any sequence of init calls.
C26_CacheMatchesConfig ==
    g_window_coeffs # NULL =>
        g_window_coeffs =
            WindowBuffer(g_audio_config.window_type, g_audio_config.fft_size)

\* the bins of the spectrum of the last call that lie in the chroma range
\* and have a nonzero magnitude
InRangeBins ==
    LET spectrum == stage_call.input.buffer
    IN  {i \in 1..(Size(spectrum) - 1) :
            /\ InChromaRange(BinFreq(i, Size(spectrum), stage_call.sample_rate))
            /\ spectrum[i] # F32Zero}

\* C21: the chroma vector is normalized: for a non-negative spectrum with a
\* nonzero magnitude in a bin whose frequency is strictly between 80 and
\* 2000 Hz the 12 bins are each in [0, 1] and sum to 1, the sum taken in
\* single precision and compared within the 1e-6 the specification allows;
\* for a spectrum without such a bin all 12 bins are 0; every bin of the
\* range is accumulated into a pitch class within 0..11.
C21_ChromaNormalized ==
    stage_call.op = "audio_compute_chroma" /\ stage_call.ret = "ESP_OK" =>
        LET chroma   == stage_call.out.chroma
            spectrum == stage_call.input.buffer
            total    == F32Sum(chroma, 0, 12)
            eps      == F32Div(F32Int(1), F32Int(1000000))
        IN  /\ DOMAIN chroma = 0..11
            /\ \A i \in 1..(Size(spectrum) - 1) :
                   LET freq == BinFreq(i, Size(spectrum), stage_call.sample_rate)
                   IN  InChromaRange(freq) => ChromaPitchClass(MidiNote(freq)) \in 0..11
            /\ IF InRangeBins # {}
               THEN /\ \A c \in 0..11 :
                          F32Ge(chroma[c], F32Zero) /\ F32Ge(F32Int(1), chroma[c])
                    /\ F32Ge(total, F32Sub(F32Int(1), eps))
                    /\ F32Ge(F32Add(F32Int(1), eps), total)
               ELSE \A c \in 0..11 : chroma[c] = F32Zero

\* a spectrum with three nonzero bins in the range, whose energy falls into
\* two pitch classes in unequal parts
C21_Witness ==
    /\ stage_call.op = "audio_compute_chroma"
    /\ stage_call.ret = "ESP_OK"
    /\ Cardinality(InRangeBins) = 3
    /\ Cardinality({c \in 0..11 : stage_call.out.chroma[c] # F32Zero}) = 2
    /\ \E c, d \in 0..11 : F32Gt(stage_call.out.chroma[c], stage_call.out.chroma[d])
                              /\ stage_call.out.chroma[d] # F32Zero

(***************************************************************************)
(* Claims about the chord recognizer.                                      *)
(***************************************************************************)

\* the pitch classes of triad c: the positions where its template holds 1
Triad(c) == {i \in 0..11 : chord_templates[c + 1][i + 1] = 1}

\* dot product of the chroma vector the last frame was matched on with the
\* 0/1 mask of template c
Score(c) == SumBins(frame.chroma, Triad(c))

\* the template of maximum score, the lowest index among equals
Winner ==
    CHOOSE c \in 0..23 :
        \A k \in 0..23 : /\ ~FGt(Score(k), Score(c))
                         /\ (k < c => FGt(Score(c), Score(k)))

\* the published estimate is the winner's
WinnerReported ==
    /\ current_chord.root_note = Winner % 12
    /\ current_chord.chord_type = (IF Winner >= 12 THEN 1 ELSE 0)
    /\ current_chord.confidence = Score(Winner)

\* C8 as amended: the recognizer selects the template of maximum dot product,
\* ties going to the lowest index, for every chroma vector; it reports
\* root_note = index mod 12, is_minor = (index >= 12) and confidence = the
\* winning score whenever the winning score is greater than 0.3.
C8_WinnerReportedAboveThreshold ==
    frame.analysed =>
        /\ frame.best_chord = Winner
        /\ frame.best_match = Score(Winner)
        /\ FGt(Score(Winner), Rat(3, 10)) => WinnerReported

\* C major (index 0) and A minor (index 21) score the same on the frame, above
\* 0.3, and C major is reported
C8_Witness ==
    /\ frame.analysed
    /\ Score(0) = Score(21)
    /\ FGt(Score(0), Rat(3, 10))
    /\ Winner = 0
    /\ current_chord.root_note = 0 /\ current_chord.chord_type = 0
    /\ current_chord.confidence = Score(0)

\* C8 as stated: the winner is reported for every chroma vector.
C8_WinnerReportedAlways == frame.analysed => WinnerReported

\* C9: when the winning score of a frame is not greater than 0.3, every field
\* of the published estimate (root_note, chord_type, confidence, chroma
\* snapshot) has the value it had before the frame was analysed.
C9_LowScoreKeepsEstimate ==
    [][(frame'.analysed /\ ~FGt(frame'.best_match, Rat(3, 10)))
          => current_chord' = current_chord]_vars

\* the C-major template as a chroma vector
CMajorChroma == [i \in 0..11 |-> Flt(chord_templates[1][i + 1])]

\* C10: a frame whose chroma vector equals the C-major template
\* (1,0,0,0,1,0,0,1,0,0,0,0) yields root_note 0, major, confidence 1.0.
C10_CMajorRecognized ==
    (frame.analysed /\ frame.accumulated = CMajorChroma) =>
        /\ current_chord.root_note = 0
        /\ current_chord.chord_type = 0
        /\ current_chord.confidence = Flt(1)

\* the last frame accumulated exactly the C-major template and matched
\* template 0 with score 1
C10_Witness ==
    /\ frame.analysed
    /\ frame.accumulated = CMajorChroma
    /\ frame.best_chord = 0
    /\ frame.best_match = Flt(1)

(***************************************************************************)
(* Claims about the tasks and the frame queue.                             *)
(***************************************************************************)
\* C29: under every interleaving of the stores of the analysis task with the
\* loads of the visualization task, the index root_note + 12 * chord_type
\* the log line looks the chord name up with is within 0..23, and the name
\* is an entry of the table or "Unknown".
C29_ChordIndexInTable ==
    /\ viz.index \in 0..23
    /\ viz.root_note + (viz.chord_type * 12) \in 0..23
    /\ viz.name \in {chord_names[i] : i \in 0..23} \cup {"Unknown"}

\* the log line used G (7) of one estimate with minor (1) of another: index
\* 19 of a chord no frame was matched to
C29_Witness ==
    /\ viz.logged
    /\ viz.index = 19
    /\ viz.name = "Gm"
    /\ viz.index \notin VizChords

\* C30: under fair scheduling of the two tasks every frame accepted into the
\* queue, as long as the chain has not finished it, is eventually dequeued
\* and run through the whole chain, and the consumer is back at its receive
\* call again and again: an empty queue only makes the receive time out and
\* be repeated.
C30_AcceptedFramesProcessed ==
    /\ \A f \in 1..MaxFrames :
           (/\ \E i \in 1..Len(accepted) : accepted[i] = f
            /\ consumer.genre.features < f)
               ~> (/\ \E i \in 1..Len(received) : received[i] = f
                   /\ consumer.pc = "xQueueReceive"
                   /\ Len(consumer.done) = 5
                   /\ consumer.genre = [ features |-> f, tempo |-> f ]
                   /\ consumer.chord = f)
    /\ []<>(consumer.pc = "xQueueReceive")

\* the second frame went through the chain, the queue is empty and the
\* receive call has timed out since
C30_Witness ==
    /\ Len(accepted) >= 2
    /\ consumer.genre = [ features |-> 2, tempo |-> 2 ]
    /\ consumer.pc = "xQueueReceive"
    /\ consumer.ret = "pdFALSE"
    /\ fft_queue = <<>>

\* C24: the magnitude spectrum the consumer hands to the feature extractors
\* has half as many bins as the transform that produced it has points, and
\* the extractors give bin i the frequency i * sample_rate / N, N being the
\* number of points of that transform.
C24_SpectrumMatchesTransform ==
    consumer.spectrum.fft_length > 0 =>
        /\ consumer.spectrum.bins = consumer.spectrum.fft_length \div 2
        /\ \A i \in 0..(consumer.spectrum.bins - 1) :
               MainBinFreq(i) = Rat(i * I2S_SAMPLE_RATE, consumer.spectrum.fft_length)


\* the stages of one frame, in the order the spec gives them
StageOrder ==
    <<"perform_fft", "extract_audio_features", "detect_beats", "analyze_chords",
      "classify_genre">>

\* C11: the frame queue never holds more than 4 frames; a push on a full queue
\* returns at once, drops the new frame and leaves the queued frames
\* unchanged; a pop that times out is tried again; accepted frames are
\* delivered in FIFO order, each exactly once.
C11_BoundedFifoQueue ==
    [][/\ Len(fft_queue') <= 4
       /\ (producer.pc = "xQueueSend" /\ producer'.pc # "xQueueSend" /\ Len(fft_queue) = 4)
             => /\ fft_queue' = fft_queue
                /\ accepted' = accepted
                /\ producer.audio_samples \in dropped'
                /\ producer'.pc = "vTaskDelay"
       /\ consumer'.ret = "pdFALSE" => consumer'.pc = "xQueueReceive"
       /\ received' \o fft_queue' = accepted'
       /\ \A i, j \in 1..Len(accepted') : i < j => accepted'[i] < accepted'[j]
       /\ \A i \in 1..Len(accepted') : accepted'[i] \notin dropped']_vars

\* a frame was refused by the full queue, and the consumer has since been
\* handed every frame accepted before it
C11_Witness ==
    /\ dropped # {}
    /\ Len(received) >= 5
    /\ received = accepted
    /\ fft_queue = <<>>

\* C12: for every frame dequeued the stages run in strict sequence and to
\* completion before the next frame is dequeued; beat tracking and genre
\* classification of frame n read the features of frame n, and genre
\* classification reads the tempo as left by frame n's beat tracking.
C12_StagesInSequence ==
    LET n == consumer.audio_buffer
        k == Len(consumer.done)
    IN  /\ consumer.done = SubSeq(StageOrder, 1, k)
        /\ consumer.pc = "xQueueReceive" => (n = 0 \/ k = 5)
        /\ consumer.pc # "xQueueReceive" => consumer.pc = StageOrder[k + 1]
        /\ k >= 1 => consumer.fft_output = n
        /\ k >= 2 => consumer.features = n
        /\ k >= 3 => consumer.beat_tracker = n
        /\ k >= 4 => consumer.chord = n
        /\ k >= 5 => consumer.genre = [ features |-> n, tempo |-> n ]

\* the second frame delivered has been through all five stages
C12_Witness ==
    /\ Len(received) = 2
    /\ consumer.pc = "xQueueReceive"
    /\ consumer.done = StageOrder
    /\ consumer.genre = [ features |-> received[2], tempo |-> received[2] ]

====
